---- MODULE Spec2Model ----
(***************************************************************************)
(* A model of the Fock-build pipeline of ChronusQ:                         *)
(*   MatAdd                  src/include/realtime/fock.hpp  (lines 91-146) *)
(*   RealTime::formFock      src/include/realtime/fock.hpp  (lines 49-57)  *)
(*   SingleSlater::formFock  src/unnamed/part_000           (lines 41-77)  *)
(*   SingleSlater::formGD    src/unnamed/part_000           (lines 85-153) *)
(*                                                                         *)
(* Numbers.  The program computes in double / dcomplex.  The model uses    *)
(* exact arithmetic on numbers of the form  h/2 + u*1e-12  (h, u integer), *)
(* written <<h, u>>: the h part carries the ordinary magnitudes (with the  *)
(* half needed for an amplitude of 0.5), the u part carries magnitudes of  *)
(* the order of the two negligibility thresholds 1e-10 and 1e-12.  A       *)
(* complex number is a pair <<re, im>> of such numbers; a double is a      *)
(* complex number whose imaginary part is zero.  Floating-point rounding   *)
(* is not modelled.                                                        *)
(***************************************************************************)
EXTENDS Integers, Sequences, FiniteSets, TLC

VARIABLES
  T,          \* the scalar type of SingleSlater<T>: "double" or "dcomplex"
  mkl,        \* whether the build defines _CQ_MKL
  nthreads,   \* the OpenMP team size (SetNumThreads / OMP_NUM_THREADS)
  mem,        \* the buffers owned by the SingleSlater object
  heap,       \* the CQMemManager: the transient block and the blocks out
  iter,       \* which density the SCF / propagation driver has installed
  xTime,      \* RealTime::curState.xTime
  pc,         \* position of the (single) calling thread
  ff,         \* arguments of the running SingleSlater::formFock
  rt,         \* arguments of the running RealTime::formFock
  idx,        \* loop counter of the running loop (i or iXYZ)
  ma,         \* frame of the running / last MatAdd call
  thr,        \* the OpenMP team inside MatAdd: per-thread locals
  omp,        \* how the OpenMP runtime schedules a team (see MA_Fork)
  engineLog,  \* request lists handed to twoBodyContract since formFock began
  fault,      \* a freed block was read or written
  calls,      \* number of top-level calls made so far
  prev        \* what the previous formFock call was and what it left

vars == <<T, mkl, nthreads, mem, heap, iter, xTime, pc, ff, rt, idx, ma, thr,
          omp, engineLog, fault, calls, prev>>

buildVars == <<T, mkl, nthreads, omp>>

-----------------------------------------------------------------------------
(* Bounds of the model *)

\* nBasis: the matrices are NB x NB
NB == 2

\* fock.size() = GD.size() = K.size() = onePDM.size()
NumComp == 2

\* largest OpenMP team
MaxThreads == 2

\* top-level calls in one behaviour
MaxCalls == 2

\* densities the driver installs one after the other
MaxIter == 2

\* largest propagation time
MaxTime == 1

(* Program constants *)

\* for(auto iXYZ = 0; iXYZ < 3; iXYZ++)
NumAxes == 3

\* std::abs(dipole[iXYZ]) > 1e-10, in units of 1e-12
FieldTol == 100

\* std::abs(xHFX) > 1e-12, in units of 1e-12
XTol == 1

\* index of the scalar component (SCALAR = 0 in the source; components are
\* numbered from 1 here)
SCALAR == 1

-----------------------------------------------------------------------------
(* Exact arithmetic on h/2 + u*1e-12 and on complex pairs of them.  Every   *)
(* product the program forms has at least one integer factor, so that the  *)
(* divisions by two below are exact and no term of order 1e-24 arises.     *)

RZero == <<0, 0>>

RInt(n) == <<2 * n, 0>>

RAdd(x, y) == <<x[1] + y[1], x[2] + y[2]>>

RNeg(x) == <<0 - x[1], 0 - x[2]>>

RMul(x, y) == <<(x[1] * y[1]) \div 2, (x[1] * y[2] + x[2] * y[1]) \div 2>>

Abs(n) == IF n < 0 THEN 0 - n ELSE n

\* std::abs(x) > tol * 1e-12
AbsGt(x, tol) == IF x[1] # 0 THEN TRUE ELSE Abs(x[2]) > tol

CZero == <<RZero, RZero>>

CInt(n) == <<RInt(n), RZero>>

\* T(x) for a real x
CReal(x) == <<x, RZero>>

CAdd(a, b) == <<RAdd(a[1], b[1]), RAdd(a[2], b[2])>>

CMul(a, b) ==
  <<RAdd(RMul(a[1], b[1]), RNeg(RMul(a[2], b[2]))),
    RAdd(RMul(a[1], b[2]), RMul(a[2], b[1]))>>

CConj(a) == <<a[1], RNeg(a[2])>>

-----------------------------------------------------------------------------
(* Dense column-major NB x NB matrices, leading dimension NB: a function   *)
(* from the offsets 0 .. NB*NB-1 to scalars.                               *)

Offsets == 0 .. (NB * NB - 1)

Rows == 0 .. (NB - 1)

Comps == 1 .. NumComp

ZeroMat == [k \in Offsets |-> CZero]

\* what a buffer holds before anything was written to it
Garbage(s, b) ==
  [k \in Offsets |->
     IF s = 0 THEN CZero
     ELSE <<RInt(k + b), IF T = "dcomplex" /\ b < 10 THEN RInt(1) ELSE RZero>>]

(* Names of the buffers *)
Fk(i) == <<"fock", i>>

Gd(i) == <<"GD", i>>

Kx(i) == <<"K", i>>

JS == <<"JScalar", 0>>

JT == <<"JContract", 0>>

Dip(k) == <<"lenElecDipole", k>>

OwnedBufs ==
  {Fk(i) : i \in Comps} \cup {Gd(i) : i \in Comps} \cup {Kx(i) : i \in Comps}
    \cup {JS}

\* aoints.lenElecDipole[k]: axis 1 is the all-ones matrix, the others differ
\* from column to column
lenElecDipole(k) ==
  [o \in Offsets |-> IF k = 1 THEN CInt(1) ELSE CInt(k + (o \div NB))]

\* the element type of a buffer: JScalar and the integrals are double*
TypeOf(buf) ==
  IF buf[1] \in {"JScalar", "lenElecDipole"} THEN "double" ELSE T

\* *(buf + off)
Read(buf, off) ==
  IF buf[1] = "lenElecDipole" THEN lenElecDipole(buf[2])[off]
  ELSE IF buf = JT THEN heap.data[off]
  ELSE mem[buf][off]

\* the whole block behind a pointer
Block(buf) == [o \in Offsets |-> Read(buf, o)]

\* a read or write through buf touches freed memory
Dangling(buf) == buf = JT /\ ~heap.live

-----------------------------------------------------------------------------
(* MatAdd (src/include/realtime/fock.hpp, lines 91-146).                   *)
(*                                                                         *)
(* The generic template opens an OpenMP parallel region.  Every thread of  *)
(* the team initialises its own locA, locB, locC to A, B, C, takes the     *)
(* iterations of the j loop that the work-sharing construct hands it, and  *)
(* advances its own pointers by the leading dimensions at the end of each  *)
(* iteration it executes.  The loads and the store of one element are      *)
(* separate steps: two threads touching the same element race.             *)

Threads == 1 .. nthreads

IdleThread ==
  [iters |-> 0, locA |-> 0, locB |-> 0, locC |-> 0, i |-> 0, reg |-> CZero,
   st |-> "out"]

NoTeam == [t \in Threads |-> IdleThread]

NoCall ==
  [TRANSA |-> "N", TRANSB |-> "N", M |-> 0, N |-> 0, ALPHA |-> CZero,
   A |-> JS, LDA |-> NB, BETA |-> CZero, B |-> JS, LDB |-> NB, C |-> JS,
   LDC |-> NB, ret |-> "idle", st |-> "none", inA |-> ZeroMat,
   inB |-> ZeroMat, inC |-> ZeroMat]

\* the frame of a call MatAdd(TRANSA,TRANSB,M,N,ALPHA,A,LDA,BETA,B,LDB,C,LDC)
\* that continues at ret; inA, inB, inC record the operands on entry
Frame(ta, tb, m, n, alpha, a, beta, b, c, ret) ==
  [TRANSA |-> ta, TRANSB |-> tb, M |-> m, N |-> n, ALPHA |-> alpha, A |-> a,
   LDA |-> NB, BETA |-> beta, B |-> b, LDB |-> NB, C |-> c, LDC |-> NB,
   ret |-> ret, st |-> "entry", inA |-> Block(a), inB |-> Block(b),
   inC |-> Block(c)]

\* the caller's side of a call: push the frame, jump to the callee
CallMatAdd(f) ==
  /\ ma' = f
  /\ pc' = "MatAdd"

\* overload resolution: the full specialisations exist only under _CQ_MKL
\* and only for (double,double,double) and (dcomplex,dcomplex,dcomplex)
UsesMKL(f) ==
  /\ mkl
  /\ TypeOf(f.A) = T
  /\ TypeOf(f.B) = T
  /\ TypeOf(f.C) = T

\* *(buf + off) = v
Write(buf, off, v) ==
  IF buf = JT
  THEN /\ heap' = [heap EXCEPT !.data[off] = v]
       /\ mem' = mem
  ELSE /\ mem' = [mem EXCEPT ![buf][off] = v]
       /\ heap' = heap

\* the whole block behind buf becomes m
WriteBlock(buf, m) ==
  IF buf = JT
  THEN /\ heap' = [heap EXCEPT !.data = m]
       /\ mem' = mem
  ELSE /\ mem' = [mem EXCEPT ![buf] = m]
       /\ heap' = heap

\* op(X)(i,j) of the vendor kernel, column-major
OpElem(trans, X, ld, i, j) ==
  IF trans = "N" THEN X[i + j * ld] ELSE X[j + i * ld]

\* mkl_?omatadd('C',TRANSA,TRANSB,M,N,ALPHA,A,LDA,BETA,B,LDB,C,LDC):
\* C := ALPHA*op(A) + BETA*op(B) on the M x N block
MklResult(f) ==
  [o \in Offsets |->
     IF (o % f.LDC) < f.M /\ (o \div f.LDC) < f.N
     THEN CAdd(CMul(f.ALPHA,
                    OpElem(f.TRANSA, f.inA, f.LDA, o % f.LDC, o \div f.LDC)),
               CMul(f.BETA,
                    OpElem(f.TRANSB, f.inB, f.LDB, o % f.LDC, o \div f.LDC)))
     ELSE f.inC[o]]

\* lines 120-136: the specialisations hand every argument to the kernel
MA_Mkl ==
  /\ pc = "MatAdd"
  /\ UsesMKL(ma)
  /\ WriteBlock(ma.C, MklResult(ma))
  /\ fault' = (fault \/ Dangling(ma.A) \/ Dangling(ma.B) \/ Dangling(ma.C))
  /\ ma' = [ma EXCEPT !.st = "returned"]
  /\ pc' = ma.ret
  /\ UNCHANGED <<buildVars, iter, xTime, ff, rt, idx, thr, engineLog, calls,
                 prev>>

\* line 96
TransOK(f) == f.TRANSA = "N" /\ f.TRANSB = "N"

\* line 96: the assertion fails and the process is aborted
MA_AssertFail ==
  /\ pc = "MatAdd"
  /\ ~UsesMKL(ma)
  /\ ~TransOK(ma)
  /\ ma' = [ma EXCEPT !.st = "aborted"]
  /\ pc' = "abort"
  /\ UNCHANGED <<buildVars, mem, heap, iter, xTime, ff, rt, idx, thr,
                 engineLog, fault, calls, prev>>

\* the number of iterations of the j loop that thread t executes under the
\* assignment asg of the columns to the threads
ItersOf(asg, t) == Cardinality({j \in DOMAIN asg : asg[j] = t})

\* lines 99-101: the locals of a thread on entry to the parallel region
ThreadStart(n) ==
  [iters |-> n, locA |-> 0, locB |-> 0, locC |-> 0, i |-> 0, reg |-> CZero,
   st |-> IF n = 0 THEN "barrier" ELSE "load"]

\* schedule(static) without a chunk size: thread t of nt gets n \div nt
\* consecutive columns, the first n % nt threads one more
StaticAssignment(n, nt) ==
  [j \in 0 .. (n - 1) |->
     CHOOSE t \in 1 .. nt :
       LET q == n \div nt
           r == n % nt
           lo == (t - 1) * q + (IF t - 1 < r THEN t - 1 ELSE r)
           hi == lo + q + (IF t - 1 < r THEN 1 ELSE 0)
       IN  lo <= j /\ j < hi]

\* the ways the work-sharing construct of line 102 may hand the columns to
\* the threads: no schedule clause is given, so the kind is the runtime's
\* default (omp.sched = "static") or anything else (omp.sched = "any")
Assignments(n) ==
  IF omp.sched = "static" THEN {StaticAssignment(n, nthreads)}
  ELSE [0 .. (n - 1) -> Threads]

\* whether thread t may take its next step: always when the team runs
\* concurrently; under omp.serial the runtime runs the threads of a team
\* one after the other
MayRun(t) ==
  omp.serial => \A u \in Threads : u < t => thr[u].st = "barrier"

\* lines 97-103: the team starts and the columns are handed out
MA_Fork ==
  /\ pc = "MatAdd"
  /\ ~UsesMKL(ma)
  /\ TransOK(ma)
  /\ \E asg \in Assignments(ma.N) :
       thr' = [t \in Threads |-> ThreadStart(ItersOf(asg, t))]
  /\ ma' = [ma EXCEPT !.st = "run"]
  /\ pc' = "omp"
  /\ UNCHANGED <<buildVars, mem, heap, iter, xTime, ff, rt, idx, engineLog,
                 fault, calls, prev>>

\* line 106, right-hand side: ALPHA * locA[i] + BETA * locB[i]
Elem(f, th) ==
  CAdd(CMul(f.ALPHA, Read(f.A, th.locA + th.i)),
       CMul(f.BETA, Read(f.B, th.locB + th.i)))

\* line 106: thread t loads its operands
MA_Load(t) ==
  /\ pc = "omp"
  /\ thr[t].st = "load"
  /\ MayRun(t)
  /\ thr' = [thr EXCEPT ![t].reg = Elem(ma, thr[t]), ![t].st = "store"]
  /\ fault' = (fault \/ Dangling(ma.A) \/ Dangling(ma.B))
  /\ UNCHANGED <<buildVars, mem, heap, iter, xTime, pc, ff, rt, idx, ma,
                 engineLog, calls, prev>>

\* lines 105-110: the locals of a thread after it stored element i
Advance(f, th) ==
  IF th.i + 1 < f.M
  THEN [th EXCEPT !.i = th.i + 1, !.reg = CZero, !.st = "load"]
  ELSE [iters |-> th.iters - 1, locA |-> th.locA + f.LDA,
        locB |-> th.locB + f.LDB, locC |-> th.locC + f.LDC, i |-> 0,
        reg |-> CZero, st |-> IF th.iters = 1 THEN "barrier" ELSE "load"]

\* line 106: thread t stores locC[i]; lines 107-109 after the last row
MA_Store(t) ==
  /\ pc = "omp"
  /\ thr[t].st = "store"
  /\ Write(ma.C, thr[t].locC + thr[t].i, thr[t].reg)
  /\ thr' = [thr EXCEPT ![t] = Advance(ma, thr[t])]
  /\ fault' = (fault \/ Dangling(ma.C))
  /\ UNCHANGED <<buildVars, iter, xTime, pc, ff, rt, idx, ma, engineLog,
                 calls, prev>>

\* line 111: the implicit barrier at the end of the region, then return
MA_Join ==
  /\ pc = "omp"
  /\ \A t \in Threads : thr[t].st = "barrier"
  /\ thr' = NoTeam
  /\ ma' = [ma EXCEPT !.st = "returned"]
  /\ pc' = ma.ret
  /\ UNCHANGED <<buildVars, mem, heap, iter, xTime, ff, rt, idx, engineLog,
                 fault, calls, prev>>

\* the steps of a call with TRANSA = TRANSB = 'N'
MatAddStep ==
  \/ MA_Mkl
  \/ MA_Fork
  \/ \E t \in Threads : MA_Load(t)
  \/ \E t \in Threads : MA_Store(t)
  \/ MA_Join

-----------------------------------------------------------------------------
(* The object before the first call.                                       *)

NoFock ==
  [pert |-> <<>>, increment |-> FALSE, xHFX |-> RZero, on |-> FALSE,
   entry |-> [b \in OwnedBufs |-> ZeroMat]]

NoRT == [increment |-> FALSE, t |-> 0, on |-> FALSE, xTime0 |-> 0]

NoPrev ==
  [on |-> FALSE, pert |-> <<>>, increment |-> FALSE, xHFX |-> RZero,
   iter |-> 0, entry |-> [b \in OwnedBufs |-> ZeroMat],
   mem |-> [b \in OwnedBufs |-> ZeroMat]]

\* the buffers hold whatever the allocator handed out
InitMem ==
  [b \in OwnedBufs |->
     IF b = JS THEN Garbage(1, 10)
     ELSE Garbage(1, b[2] + (IF b[1] = "fock" THEN 0
                             ELSE IF b[1] = "GD" THEN 3 ELSE 5))]

InitObject ==
  /\ T \in {"double", "dcomplex"}
  /\ mkl \in BOOLEAN
  /\ nthreads \in 1 .. MaxThreads
  /\ mem = InitMem
  /\ heap = [live |-> FALSE, data |-> ZeroMat, out |-> 0]
  /\ iter = 1
  /\ xTime = 0
  /\ pc = "idle"
  /\ ff = NoFock
  /\ rt = NoRT
  /\ idx = 0
  /\ ma = NoCall
  /\ thr = NoTeam
  /\ engineLog = <<>>
  /\ fault = FALSE
  /\ calls = 0
  /\ prev = NoPrev

-----------------------------------------------------------------------------
(* A caller of MatAdd alone: the primitive applied once to the object's    *)
(* buffers, with arguments drawn from small sets.                          *)

Scales == {CInt(0), CInt(1), CInt(2)}

DirectMatAdd ==
  /\ pc = "idle"
  /\ calls = 0
  /\ \E ta \in {"N", "T"}, tb \in {"N", "T"}, m \in 1 .. NB, n \in 1 .. NB,
        alpha \in Scales, beta \in Scales, a \in {Fk(1), Gd(1)},
        b \in {Kx(1), JS} :
       CallMatAdd(Frame(ta, tb, m, n, alpha, a, beta, b, Fk(1), "idle"))
  /\ calls' = calls + 1
  /\ UNCHANGED <<buildVars, mem, heap, iter, xTime, ff, rt, idx, thr,
                 engineLog, fault, prev>>

NextMatAdd == DirectMatAdd \/ MA_AssertFail \/ MatAddStep

\* MatAdd alone is explored under every assignment of the columns and every
\* interleaving of the team
InitMatAdd == InitObject /\ omp = [sched |-> "any", serial |-> FALSE]

SpecMatAdd == InitMatAdd /\ [][NextMatAdd]_vars

-----------------------------------------------------------------------------
(* The collaborators of the Fock build whose code is outside the two       *)
(* files: the integrals, the densities the driver installs, the contraction*)
(* engine, SetMatRE / SetMatIM / GetMatRE, the perturbation source.        *)

\* aoints.coreH.size(): the spin components of the core Hamiltonian are
\* stored as imaginary parts, which only a complex Fock matrix can take
CoreHSize == IF T = "double" THEN 1 ELSE NumComp

\* aoints.coreH[c], a double matrix: the scalar one is diag(1, 2, ...)
coreH(c) ==
  [o \in Offsets |->
     IF c = SCALAR
     THEN (IF o % NB = o \div NB THEN CInt(1 + (o % NB)) ELSE CZero)
     ELSE CInt(c + (o % NB) + (o \div NB))]

\* the density of SCF iteration it, component c: Hermitian, real for
\* SingleSlater<double>; there is no density before the first iteration
Dens(it, c) ==
  [o \in Offsets |->
     IF it = 0 THEN CZero
     ELSE <<RInt(IF o % NB = o \div NB THEN it + c - 1 + (o % NB) ELSE it),
            IF T = "double" THEN RZero
            ELSE IF o % NB < o \div NB THEN RInt(it)
            ELSE IF o % NB > o \div NB THEN RInt(0 - it) ELSE RZero>>]

MatPlus(X, Y) == [o \in Offsets |-> CAdd(X[o], Y[o])]

MatMinus(X, Y) ==
  [o \in Offsets |-> CAdd(X[o], CMul(CInt(0 - 1), Y[o]))]

\* this->onePDM[c]
onePDM(c) == Dens(iter, c)

\* deltaOnePDM[c]: the change of the density since the previous iteration
deltaOnePDM(c) == MatMinus(Dens(iter, c), Dens(iter - 1, c))

\* the matrix a request's density pointer refers to
PDMOf(x) == IF x[1] = "deltaOnePDM" THEN deltaOnePDM(x[2]) ELSE onePDM(x[2])

\* the two-electron integral (ij|kl), with its eightfold symmetry
ERI(i, j, k, l) == (i + j + 1) * (k + l + 1)

\* the integral that weights X(k,l) in element (i,j) of the contraction:
\* (ij|kl) for Coulomb, (ik|jl) for exchange; o and q are the offsets of
\* (i,j) and (k,l)
Weight(kind, o, q) ==
  IF kind = "COULOMB" THEN ERI(o % NB, o \div NB, q % NB, q \div NB)
  ELSE ERI(o % NB, q % NB, o \div NB, q \div NB)

RECURSIVE Contracted(_, _, _, _)
\* the part of element o of the contraction that comes from X(0) .. X(n)
Contracted(kind, X, o, n) ==
  IF n < 0 THEN CZero
  ELSE CAdd(CMul(CInt(Weight(kind, o, n)), X[n]),
            Contracted(kind, X, o, n - 1))

\* J[X](i,j) = sum_kl (ij|kl) X(k,l)
CoulombOf(X) ==
  [o \in Offsets |-> Contracted("COULOMB", X, o, NB * NB - 1)]

\* K[X](i,j) = sum_kl (ik|jl) X(k,l)
ExchangeOf(X) ==
  [o \in Offsets |-> Contracted("EXCHANGE", X, o, NB * NB - 1)]

\* what one request adds to its destination
ContractionOf(req) ==
  IF req.contType = "COULOMB" THEN CoulombOf(PDMOf(req.X))
  ELSE ExchangeOf(PDMOf(req.X))

RECURSIVE ContractInto(_, _, _)
\* the block behind buf after requests n, n-1, ..., 1 of list were applied
\* to it: the engine accumulates into the destination of each request
ContractInto(buf, list, n) ==
  IF n = 0 THEN Block(buf)
  ELSE IF list[n].AX = buf
       THEN MatPlus(ContractInto(buf, list, n - 1), ContractionOf(list[n]))
       ELSE ContractInto(buf, list, n - 1)

\* SetMatRE('N',NB,NB,1.,A,NB,B,NB): the real part of B becomes A
SetMatRE(A, B) == [o \in Offsets |-> <<A[o][1], B[o][2]>>]

\* SetMatIM('N',NB,NB,1.,A,NB,B,NB): the imaginary part of B becomes A
SetMatIM(A, B) == [o \in Offsets |-> <<B[o][1], A[o][1]>>]

\* GetMatRE('N',NB,NB,1.,A,NB,B,NB): the double matrix B becomes Re(A)
GetMatRE(A) == [o \in Offsets |-> <<A[o][1], RZero>>]

\* one field of an EMPerturbation: its amplitude along x, y, z
FieldBelow == << <<0, 100>>, RZero, <<0, 0 - 50>> >>

FieldHalfX == << <<1, 0>>, RZero, RZero >>

FieldMixed == << RInt(0 - 1), <<0, 100>>, <<0, 200>> >>

\* the descriptors the SCF driver may pass: no field, one field at or below
\* the threshold on every axis (1e-10, 0, -5e-11), one field of amplitude
\* 0.5 along x; the propagation also meets amplitudes of -1, 1e-10, 2e-10
Perts == {<<>>, <<FieldBelow>>, <<FieldHalfX>>}

RECURSIVE getAmp(_)
\* EMPerturbation::getAmp(): the amplitudes of the fields, added up
getAmp(pert) ==
  IF pert = <<>> THEN <<RZero, RZero, RZero>>
  ELSE LET rest == getAmp(Tail(pert))
       IN  [k \in 1 .. NumAxes |-> RAdd(Head(pert)[k], rest[k])]

\* TDEMPerturbation::getPert(t): the field that is on at time t
getPert(t) == IF t = 0 THEN <<FieldHalfX>> ELSE <<FieldMixed>>

\* the default value of formFock's third parameter
DefaultXHFX == RInt(1)

\* the exact-exchange fractions a caller may pass: 0, 1e-12 and 1
XHFXs == {RZero, <<0, 1>>, RInt(1)}

-----------------------------------------------------------------------------
(* SingleSlater<T>::formGD (src/unnamed/part_000, lines 85-153).           *)

\* line 89
Contract1PDM(increment) == IF increment THEN "deltaOnePDM" ELSE "onePDM"

\* lines 95-100: where the Coulomb contraction goes
JContract == IF T = "double" THEN JS ELSE JT

\* line 103
ZeroesJ(increment) == ~increment \/ T # "double"

\* lines 110 and 133
ComputesExchange(xHFX) == AbsGt(xHFX, XTol)

\* line 115
ZeroesK(increment) == ~increment

\* the request list with the Coulomb request pushed after the exchange ones
RequestsCoulombLast(increment, xHFX) ==
  (IF ComputesExchange(xHFX)
   THEN [i \in Comps |->
           [X |-> <<Contract1PDM(increment), i>>, AX |-> Kx(i),
            HER |-> TRUE, contType |-> "EXCHANGE"]]
   ELSE <<>>)
  \o << [X |-> <<Contract1PDM(increment), SCALAR>>, AX |-> JContract,
         HER |-> TRUE, contType |-> "COULOMB"] >>

\* lines 106-116: the request list
Requests(increment, xHFX) ==
  << [X |-> <<Contract1PDM(increment), SCALAR>>, AX |-> JContract,
      HER |-> TRUE, contType |-> "COULOMB"] >>
  \o (IF ComputesExchange(xHFX)
      THEN [i \in Comps |->
              [X |-> <<Contract1PDM(increment), i>>, AX |-> Kx(i),
               HER |-> TRUE, contType |-> "EXCHANGE"]]
      ELSE <<>>)

\* line 99: memManager.malloc<T>(NB2); the block is not initialised
Malloc(h) ==
  [live |-> TRUE, data |-> Garbage(1, 7), out |-> h.out + 1]

\* the release placed in the incrementing branch only
FreeWhenIncrementing(h) ==
  IF ff.increment THEN [h EXCEPT !.live = FALSE, !.out = h.out - 1] ELSE h

\* line 128: memManager.free(JContract)
Free(h) == [h EXCEPT !.live = FALSE, !.out = h.out - 1]

\* lines 89-116: the temporary, the zeroing and the request list
GD_Prologue ==
  /\ pc = "formGD"
  /\ LET h == IF T = "double" THEN heap ELSE Malloc(heap)
     IN  /\ heap' = IF JContract = JT /\ ZeroesJ(ff.increment)
                    THEN [h EXCEPT !.data = ZeroMat] ELSE h
         /\ mem' = [b \in OwnedBufs |->
                      IF b = JContract /\ ZeroesJ(ff.increment) THEN ZeroMat
                      ELSE IF /\ b[1] = "K"
                              /\ ComputesExchange(ff.xHFX)
                              /\ ZeroesK(ff.increment)
                           THEN ZeroMat
                      ELSE mem[b]]
  /\ pc' = "gd_contract"
  /\ UNCHANGED <<buildVars, iter, xTime, ff, rt, idx, ma, thr, engineLog,
                 fault, calls, prev>>

\* line 118: aoints.twoBodyContract(contract)
GD_Contract ==
  /\ pc = "gd_contract"
  /\ LET list == Requests(ff.increment, ff.xHFX)
     IN  /\ mem' = [b \in OwnedBufs |-> ContractInto(b, list, Len(list))]
         /\ heap' = IF JContract = JT
                    THEN [heap EXCEPT !.data = ContractInto(JT, list, Len(list))]
                    ELSE heap
         /\ engineLog' = Append(engineLog, list)
  /\ fault' = (fault \/ Dangling(JContract))
  /\ pc' = IF T # "double" THEN "gd_fold" ELSE "gd_form"
  /\ idx' = 1
  /\ UNCHANGED <<buildVars, iter, xTime, ff, rt, ma, thr, calls, prev>>

\* lines 123-125: incrementing, the old JScalar is added to the temporary
GD_FoldAdd ==
  /\ pc = "gd_fold"
  /\ ff.increment
  /\ CallMatAdd(Frame("N", "N", NB, NB, CInt(1), JContract, CInt(1), JS,
                      JContract, "gd_getRE"))
  /\ UNCHANGED <<buildVars, mem, heap, iter, xTime, ff, rt, idx, thr,
                 engineLog, fault, calls, prev>>

\* lines 122 / 126 and 128: JScalar takes the real part, the temporary goes
GD_GetRE ==
  /\ \/ pc = "gd_fold" /\ ~ff.increment
     \/ pc = "gd_getRE"
  /\ mem' = [mem EXCEPT ![JS] = GetMatRE(Block(JContract))]
  /\ fault' = (fault \/ Dangling(JContract))
  /\ heap' = Free(heap)
  /\ pc' = "gd_form"
  /\ UNCHANGED <<buildVars, iter, xTime, ff, rt, idx, ma, thr, engineLog,
                 calls, prev>>

\* lines 133-136: GD[i] = 0*GD[i] - xHFX*K[i]
GD_FormK ==
  /\ pc = "gd_form"
  /\ ComputesExchange(ff.xHFX)
  /\ CallMatAdd(Frame("N", "N", NB, NB, CInt(0), Gd(idx),
                      CReal(RNeg(ff.xHFX)), Kx(idx), Gd(idx),
                      IF idx = NumComp THEN "gd_addJ" ELSE "gd_form"))
  /\ idx' = IF idx = NumComp THEN 1 ELSE idx + 1
  /\ UNCHANGED <<buildVars, mem, heap, iter, xTime, ff, rt, thr, engineLog,
                 fault, calls, prev>>

\* lines 137-139: no exchange, GD is zeroed
GD_FormZero ==
  /\ pc = "gd_form"
  /\ ~ComputesExchange(ff.xHFX)
  /\ mem' = [b \in OwnedBufs |-> IF b[1] = "GD" THEN ZeroMat ELSE mem[b]]
  /\ pc' = "gd_addJ"
  /\ UNCHANGED <<buildVars, heap, iter, xTime, ff, rt, idx, ma, thr,
                 engineLog, fault, calls, prev>>

\* lines 144-145: GD[SCALAR] += 2*JScalar; formGD returns into formFock
GD_AddJ ==
  /\ pc = "gd_addJ"
  /\ CallMatAdd(Frame("N", "N", NB, NB, CInt(1), Gd(SCALAR), CInt(2), JS,
                      Gd(SCALAR), "ff_core"))
  /\ UNCHANGED <<buildVars, mem, heap, iter, xTime, ff, rt, idx, thr,
                 engineLog, fault, calls, prev>>

-----------------------------------------------------------------------------
(* SingleSlater<T>::formFock (src/unnamed/part_000, lines 41-77).          *)

\* lines 51-56: the Fock matrix is zeroed and takes the core Hamiltonian
CoreFock(b) ==
  IF b[2] = SCALAR THEN SetMatRE(coreH(SCALAR), ZeroMat)
  ELSE IF b[2] <= CoreHSize THEN SetMatIM(coreH(b[2]), ZeroMat)
  ELSE ZeroMat

FF_Core ==
  /\ pc = "ff_core"
  /\ mem' = [b \in OwnedBufs |-> IF b[1] = "fock" THEN CoreFock(b) ELSE mem[b]]
  /\ idx' = 1
  /\ pc' = "ff_addGD"
  /\ UNCHANGED <<buildVars, heap, iter, xTime, ff, rt, ma, thr, engineLog,
                 fault, calls, prev>>

\* lines 59-61: fock[i] += GD[i]
FF_AddGD ==
  /\ pc = "ff_addGD"
  /\ CallMatAdd(Frame("N", "N", NB, NB, CInt(1), Fk(idx), CInt(1), Gd(idx),
                      Fk(idx), IF idx = NumComp THEN "ff_pert" ELSE "ff_addGD"))
  /\ idx' = IF idx = NumComp THEN 1 ELSE idx + 1
  /\ UNCHANGED <<buildVars, mem, heap, iter, xTime, ff, rt, thr, engineLog,
                 fault, calls, prev>>

\* line 68
FieldActive(amp) == AbsGt(amp, FieldTol)

\* lines 64-68: the axes from k on whose term is added
ActiveAxes(pert, k) ==
  IF Len(pert) = 0 THEN {}
  ELSE {a \in k .. NumAxes : FieldActive(getAmp(pert)[a])}

Min(S) == CHOOSE m \in S : \A n \in S : m <= n

\* lines 67-70: the loop runs to the next axis with a field and adds
\* -2*dipole[iXYZ] * lenElecDipole[iXYZ] to fock[0]
FF_Pert ==
  /\ pc = "ff_pert"
  /\ ActiveAxes(ff.pert, idx) # {}
  /\ LET a == Min(ActiveAxes(ff.pert, idx))
     IN  /\ CallMatAdd(Frame("N", "N", NB, NB, CInt(1), Fk(SCALAR),
                             CReal(RMul(RInt(0 - 2), getAmp(ff.pert)[a])),
                             Dip(a), Fk(SCALAR), "ff_pert"))
         /\ idx' = a + 1
  /\ UNCHANGED <<buildVars, mem, heap, iter, xTime, ff, rt, thr, engineLog,
                 fault, calls, prev>>

\* line 71: the loop over the axes is through (or was never entered)
Returning == pc = "ff_pert" /\ ActiveAxes(ff.pert, idx) = {}

\* line 77: formFock returns (and with it RealTime::formFock, if it called)
FF_Return ==
  /\ Returning
  /\ pc' = "idle"
  /\ ff' = [ff EXCEPT !.on = FALSE]
  /\ rt' = [rt EXCEPT !.on = FALSE]
  /\ prev' = [on |-> TRUE, pert |-> ff.pert, increment |-> ff.increment,
              xHFX |-> ff.xHFX, iter |-> iter, entry |-> ff.entry,
              mem |-> mem]
  /\ idx' = 0
  /\ UNCHANGED <<buildVars, mem, heap, iter, xTime, ma, thr, engineLog, fault,
                 calls>>

\* line 48: formFock begins with formGD(increment, xHFX); ff.entry records
\* what the buffers hold at this moment
EnterFormFock(pert, increment, xHFX) ==
  /\ ff' = [pert |-> pert, increment |-> increment, xHFX |-> xHFX,
            on |-> TRUE, entry |-> mem]
  /\ engineLog' = <<>>
  /\ pc' = "formGD"
  /\ calls' = calls + 1

\* a caller of SingleSlater::formFock (the SCF driver)
CallFormFock ==
  /\ pc = "idle"
  /\ calls < MaxCalls
  /\ \E pert \in Perts, increment \in BOOLEAN, xHFX \in XHFXs :
       EnterFormFock(pert, increment, xHFX)
  /\ UNCHANGED <<buildVars, mem, heap, iter, xTime, rt, idx, ma, thr, fault,
                 prev>>

-----------------------------------------------------------------------------
(* RealTime<_SSTyp,T>::formFock (src/include/realtime/fock.hpp, 49-57).    *)

\* line 53: the time the perturbation is evaluated at
PertTime(t) == xTime

\* lines 50-55, called with (increment, t)
RT_FormFock ==
  /\ pc = "idle"
  /\ calls < MaxCalls
  /\ \E increment \in BOOLEAN, t \in 0 .. MaxTime :
       /\ rt' = [increment |-> increment, t |-> t, on |-> TRUE,
                 xTime0 |-> xTime]
       /\ EnterFormFock(getPert(PertTime(t)), increment, DefaultXHFX)
  /\ UNCHANGED <<buildVars, mem, heap, iter, xTime, idx, ma, thr, fault,
                 prev>>

\* the propagator moves curState.xTime on between two Fock builds
AdvanceTime ==
  /\ pc = "idle"
  /\ xTime < MaxTime
  /\ xTime' = xTime + 1
  /\ UNCHANGED <<buildVars, mem, heap, iter, pc, ff, rt, idx, ma, thr,
                 engineLog, fault, calls, prev>>

\* the driver installs the next density and its difference to the last one
NewDensity ==
  /\ pc = "idle"
  /\ iter < MaxIter
  /\ iter' = iter + 1
  /\ UNCHANGED <<buildVars, mem, heap, xTime, pc, ff, rt, idx, ma, thr,
                 engineLog, fault, calls, prev>>

FormGDStep ==
  \/ GD_Prologue
  \/ GD_Contract
  \/ GD_FoldAdd
  \/ GD_GetRE
  \/ GD_FormK
  \/ GD_FormZero
  \/ GD_AddJ

FormFockStep ==
  \/ FF_Core
  \/ FF_AddGD
  \/ FF_Pert
  \/ FF_Return

\* the SCF driver and the Fock build
Next ==
  \/ CallFormFock
  \/ NewDensity
  \/ FormGDStep
  \/ FormFockStep
  \/ MatAddStep

\* the propagation driver and the Fock build; RealTime::formFock passes no
\* xHFX, so that the branch without exchange is never taken
NextRT ==
  \/ RT_FormFock
  \/ AdvanceTime
  \/ GD_Prologue
  \/ GD_Contract
  \/ GD_FoldAdd
  \/ GD_GetRE
  \/ GD_FormK
  \/ GD_AddJ
  \/ FormFockStep
  \/ MatAddStep

\* the Fock build is explored with the runtime's default static schedule
\* and the threads of a team running one after the other
Init == InitObject /\ omp = [sched |-> "static", serial |-> TRUE]

Spec == Init /\ [][Next]_vars

SpecRT == Init /\ [][NextRT]_vars

\* a driver that asks for full builds without field and without exchange
CallFullBuild ==
  /\ pc = "idle"
  /\ calls < MaxCalls
  /\ EnterFormFock(<<>>, FALSE, RZero)
  /\ UNCHANGED <<buildVars, mem, heap, iter, xTime, rt, idx, ma, thr, fault,
                 prev>>

\* repeated full builds, the threads of a team running concurrently
NextRace ==
  \/ CallFullBuild
  \/ GD_Prologue
  \/ GD_Contract
  \/ GD_GetRE
  \/ GD_FormZero
  \/ GD_AddJ
  \/ FF_Core
  \/ FF_AddGD
  \/ FF_Return
  \/ MatAddStep

InitRace == InitObject /\ omp = [sched |-> "static", serial |-> FALSE]

SpecRace == InitRace /\ [][NextRace]_vars

-----------------------------------------------------------------------------
(* Claims about MatAdd, checked under SpecMatAdd.                          *)

\* what C[i + j*LDC] must be on return of the call f
Combined(f, i, j) ==
  CAdd(CMul(f.ALPHA, f.inA[i + j * f.LDA]), CMul(f.BETA, f.inB[i + j * f.LDB]))

\* the whole M x N block of C holds ALPHA*A + BETA*B
BlockCombined(f) ==
  \A i \in 0 .. (f.M - 1), j \in 0 .. (f.N - 1) :
    Read(f.C, i + j * f.LDC) = Combined(f, i, j)

\* the call that returned went through the generic template with 'N','N'
GenericReturned ==
  /\ pc = "idle"
  /\ ma.st = "returned"
  /\ ~UsesMKL(ma)
  /\ TransOK(ma)

\* C1: when the generic MatAdd returns from a call with TRANSA = TRANSB =
\* 'N', every element of the M x N block satisfies
\* C[i + j*LDC] = ALPHA*A[i + j*LDA] + BETA*B[i + j*LDB] (A, B as on entry),
\* for every team size and every assignment of the columns, in place or not.
C1_CombineAllWorkers == GenericReturned => BlockCombined(ma)

\* C1 restricted to a team of one thread
C1_CombineOneWorker == (GenericReturned /\ nthreads = 1) => BlockCombined(ma)

\* a team of one thread returned from an in-place call on more than a column
C1_OneWorkerReached ==
  GenericReturned /\ nthreads = 1 /\ ma.A = ma.C /\ ma.N > 1

\* C2: a call with TRANSA # 'N' or TRANSB # 'N' ends in the failed
\* assertion and leaves every element of C as it was, on the generic path
\* and on both vendor specialisations.
C2_TransposeAsserts ==
  (ma.st \in {"run", "returned", "aborted"} /\ ~TransOK(ma))
    => (ma.st = "aborted" /\ Block(ma.C) = ma.inC)

\* C2 restricted to the generic template
C2_TransposeAssertsGeneric ==
  (ma.st \in {"run", "returned", "aborted"} /\ ~TransOK(ma) /\ ~UsesMKL(ma))
    => (ma.st = "aborted" /\ Block(ma.C) = ma.inC)

-----------------------------------------------------------------------------
(* Claims about formFock and formGD.                                       *)

Scaled(c, X) == [o \in Offsets |-> CMul(c, X[o])]

\* what the core Hamiltonian contributes to component i of the Fock matrix:
\* coreH[SCALAR] on the real axis, coreH[i] on the imaginary axis
CoreTerm(i) ==
  IF i = SCALAR THEN coreH(SCALAR)
  ELSE IF i <= CoreHSize THEN [o \in Offsets |-> <<RZero, coreH(i)[o][1]>>]
  ELSE ZeroMat

RECURSIVE FieldSum(_, _)
\* the sum over the axes 1 .. a with |amp| > 1e-10 of -2*amp*lenElecDipole
FieldSum(amp, a) ==
  IF a = 0 THEN ZeroMat
  ELSE MatPlus(FieldSum(amp, a - 1),
               IF AbsGt(amp[a], 100)
               THEN Scaled(CReal(RMul(RInt(0 - 2), amp[a])), lenElecDipole(a))
               ELSE ZeroMat)

\* the field term of a descriptor: nothing without a field
FieldTerm(pert) ==
  IF Len(pert) = 0 THEN ZeroMat ELSE FieldSum(getAmp(pert), NumAxes)

\* formFock has returned and nothing was called since
Returned == pc = "idle" /\ prev.on

\* every MatAdd of the build is executed by one thread or by the vendor
\* kernel
OneWorker == nthreads = 1 \/ (mkl /\ T = "double")

FockAssembled ==
  \A i \in Comps :
    mem[Fk(i)] =
      MatPlus(MatPlus(CoreTerm(i), mem[Gd(i)]),
              IF i = SCALAR THEN FieldTerm(prev.pert) ELSE ZeroMat)

\* C3: after formFock returns, the scalar Fock component is coreH[SCALAR] +
\* GD[SCALAR] plus -2*amp*lenElecDipole[axis] for exactly the axes with
\* |amp| > 1e-10 of a descriptor with at least one field, and every other
\* component is its core-Hamiltonian contribution plus GD[i].
C3_FockAssembled == Returned => FockAssembled

\* C3 for builds in which one worker executes every MatAdd
C3_FockAssembledOneWorker == (Returned /\ OneWorker) => FockAssembled

\* formGD has returned into formFock (line 48 is through)
GDReturned == pc = "ff_core"

GDFull ==
  \A i \in Comps :
    mem[Gd(i)] =
      MatPlus(Scaled(CReal(RNeg(ff.xHFX)), ExchangeOf(onePDM(i))),
              IF i = SCALAR THEN Scaled(CInt(2), CoulombOf(onePDM(SCALAR)))
              ELSE ZeroMat)

\* C4: after formGD(false, xHFX) with |xHFX| > 1e-12, GD[SCALAR] =
\* 2*J[D_scalar] - xHFX*K[D_scalar] and GD[i] = -xHFX*K[D_i] for the other
\* components, J and K being the engine's results for the full density.
C4_GDFull ==
  (GDReturned /\ ~ff.increment /\ AbsGt(ff.xHFX, 1)) => GDFull

\* C4 for builds in which one worker executes every MatAdd
C4_GDFullOneWorker ==
  (GDReturned /\ ~ff.increment /\ AbsGt(ff.xHFX, 1) /\ OneWorker) => GDFull

NoExchangeGD ==
  /\ \A n \in 1 .. Len(engineLog) : \A m \in 1 .. Len(engineLog[n]) :
       engineLog[n][m].contType # "EXCHANGE"
  /\ \A i \in Comps : i # SCALAR => mem[Gd(i)] = ZeroMat
  /\ mem[Gd(SCALAR)] = Scaled(CInt(2), mem[JS])

\* C5: after formGD with |xHFX| <= 1e-12 no exchange request was sent, every
\* GD component but the scalar one is zero and GD[SCALAR] = 2*JScalar,
\* whatever K and GD held and whatever the increment flag.
C5_NoExchange == (GDReturned /\ ~AbsGt(ff.xHFX, 1)) => NoExchangeGD

\* C5 for builds in which one worker executes every MatAdd
C5_NoExchangeOneWorker ==
  (GDReturned /\ ~AbsGt(ff.xHFX, 1) /\ OneWorker) => NoExchangeGD

\* what a full build with the density of iteration it leaves in buffer b,
\* entry being the contents of the buffers before it
RefGD(it, xHFX, i) ==
  MatPlus(IF AbsGt(xHFX, 1)
          THEN Scaled(CReal(RNeg(xHFX)), ExchangeOf(Dens(it, i)))
          ELSE ZeroMat,
          IF i = SCALAR
          THEN Scaled(CInt(2), GetMatRE(CoulombOf(Dens(it, SCALAR))))
          ELSE ZeroMat)

RefBuild(it, xHFX, pert, entry) ==
  [b \in OwnedBufs |->
     IF b = JS THEN GetMatRE(CoulombOf(Dens(it, SCALAR)))
     ELSE IF b[1] = "K"
          THEN (IF AbsGt(xHFX, 1) THEN ExchangeOf(Dens(it, b[2]))
                ELSE entry[b])
     ELSE IF b[1] = "GD" THEN RefGD(it, xHFX, b[2])
     ELSE MatPlus(MatPlus(CoreTerm(b[2]), RefGD(it, xHFX, b[2])),
                  IF b[2] = SCALAR THEN FieldTerm(pert) ELSE ZeroMat)]

\* a full build is about to return
FullDone == Returning /\ ~ff.increment

\* an incremental build is about to return that followed a full build with
\* the previous density, the same xHFX and the same field
IncrementalDone ==
  /\ Returning
  /\ ff.increment
  /\ prev.on
  /\ ~prev.increment
  /\ prev.xHFX = ff.xHFX
  /\ prev.pert = ff.pert
  /\ prev.iter + 1 = iter

\* a full build with one worker leaves RefBuild for the installed density
FullBuildIsRef ==
  (FullDone /\ OneWorker) => mem = RefBuild(iter, ff.xHFX, ff.pert, ff.entry)

\* C6: formFock(false) with D1, then formFock(true) with deltaOnePDM =
\* D2 - D1, same xHFX and field, leaves the Fock, GD, JScalar and K that a
\* single formFock(false) with D2 leaves: the complete matrices for D2.
C6_IncrementalEquivalence ==
  IncrementalDone => mem = RefBuild(iter, ff.xHFX, ff.pert, prev.entry)

\* C6 for builds in which one worker executes every MatAdd
C6_IncrementalEquivalenceOneWorker ==
  (IncrementalDone /\ OneWorker)
    => mem = RefBuild(iter, ff.xHFX, ff.pert, prev.entry)

\* a full build is about to return that followed a full build with the same
\* density, xHFX and field
SecondFullDone ==
  /\ FullDone
  /\ prev.on
  /\ ~prev.increment
  /\ prev.xHFX = ff.xHFX
  /\ prev.pert = ff.pert
  /\ prev.iter = iter

\* C7: two full builds in a row with density, xHFX and field unchanged
\* leave identical Fock, GD, JScalar and K buffers.
C7_FullBuildIdempotent == SecondFullDone => mem = prev.mem

\* C7 for builds in which one worker executes every MatAdd
C7_FullBuildIdempotentOneWorker ==
  (SecondFullDone /\ OneWorker) => mem = prev.mem

\* C8: RealTime::formFock(increment, t) hands formFock the descriptor of the
\* perturbation source for the caller's t and the caller's increment flag,
\* and leaves curState.xTime as it was.
C8_FieldAtCallerTime ==
  rt.on => (/\ ff.pert = getPert(rt.t)
            /\ ff.increment = rt.increment
            /\ xTime = rt.xTime0)

\* C8 with the time of the object in place of the caller's t
C8_FieldAtCurrentTime ==
  rt.on => (/\ ff.pert = getPert(rt.xTime0)
            /\ ff.increment = rt.increment
            /\ xTime = rt.xTime0)

-----------------------------------------------------------------------------
(* Claims about the allocator and the contraction engine.                  *)

\* formGD is between its allocation (line 99) and its release (line 128)
HoldsTemporary ==
  \/ pc \in {"gd_contract", "gd_fold", "gd_getRE"}
  \/ pc \in {"MatAdd", "omp"} /\ ma.ret = "gd_getRE"

\* every Coulomb request so far went to buf
CoulombInto(buf) ==
  \A n \in 1 .. Len(engineLog) : \A m \in 1 .. Len(engineLog[n]) :
    engineLog[n][m].contType = "COULOMB" => engineLog[n][m].AX = buf

\* C9: the number of blocks out of the allocator is the same after a call as
\* before it; the real type allocates nothing and contracts into JScalar;
\* any other type allocates one block in formGD and releases it once before
\* formGD returns, on every path, and never touches it after the release.
C9_AllocatorBalanced ==
  /\ ~fault
  /\ (heap.live <=> heap.out = 1)
  /\ heap.out \in {0, 1}
  /\ T = "double" => (heap.out = 0 /\ CoulombInto(JS))
  /\ T # "double" => (CoulombInto(JT) /\ (HoldsTemporary <=> heap.out = 1))

\* a complex build has returned from an incremental call without exchange
C9_ComplexIncrementalReturned ==
  /\ Returned
  /\ T = "dcomplex"
  /\ prev.increment
  /\ ~AbsGt(prev.xHFX, 1)
  /\ heap.out = 0
  /\ calls = 2

\* the density set formGD contracts
Selected == IF ff.increment THEN "deltaOnePDM" ELSE "onePDM"

\* list is the Coulomb request on the scalar component of the selected
\* density followed by one exchange request per K component (want = TRUE)
\* or by nothing
WellFormedRequests(list, want) ==
  /\ Len(list) = 1 + (IF want THEN NumComp ELSE 0)
  /\ list[1].contType = "COULOMB"
  /\ list[1].X = <<Selected, SCALAR>>
  /\ \A m \in 2 .. Len(list) : list[m].contType = "EXCHANGE"
  /\ want => \A i \in Comps : \E m \in 2 .. Len(list) :
               list[m].X = <<Selected, i>> /\ list[m].AX = Kx(i)

\* formGD has not called the engine yet
BeforeContract == pc \in {"formGD", "gd_contract"}

\* C10: each formGD calls the engine exactly once, with the Coulomb request
\* on the scalar component of the selected density first and one exchange
\* request per K component iff |xHFX| > 1e-12; the destinations are zeroed
\* (the Coulomb buffer unless incrementing with the real type, K[i] unless
\* incrementing) before that call and GD is written only after it.
C10_OneContraction ==
  /\ ff.on /\ BeforeContract =>
       /\ engineLog = <<>>
       /\ \A i \in Comps : mem[Gd(i)] = ff.entry[Gd(i)]
  /\ ff.on /\ pc = "gd_contract" =>
       /\ (~ff.increment \/ T # "double") =>
            Block(IF T = "double" THEN JS ELSE JT) = ZeroMat
       /\ (AbsGt(ff.xHFX, 1) /\ ~ff.increment) =>
            \A i \in Comps : mem[Kx(i)] = ZeroMat
  /\ (ff.on /\ ~BeforeContract) \/ Returned =>
       /\ Len(engineLog) = 1
       /\ WellFormedRequests(engineLog[1],
                             AbsGt((IF ff.on THEN ff ELSE prev).xHFX, 1))
  /\ ff.on /\ ~BeforeContract /\ AbsGt(ff.xHFX, 1) =>
       \A i \in Comps :
         mem[Kx(i)] = MatPlus(IF ff.increment THEN ff.entry[Kx(i)] ELSE ZeroMat,
                              ExchangeOf(PDMOf(<<Selected, i>>)))

\* an incremental formGD with exchange has returned into formFock
C10_IncrementalExchangeDone ==
  /\ ff.on
  /\ GDReturned
  /\ ff.increment
  /\ AbsGt(ff.xHFX, 1)
  /\ Len(engineLog) = 1
  /\ Len(engineLog[1]) = 1 + NumComp

====
